---- MODULE Spec2Model ----
(***************************************************************************)
(* Model of the go-as orchestrator: the provider registration table        *)
(* (Orchestrator.mcpClients), ExecuteTask with its tool discovery, the     *)
(* agent loop it runs, the result synthesizer, the reconnector and the     *)
(* update channel of one task.                                             *)
(*                                                                         *)
(* Tool names and aliases are sequences of one-character strings, so that  *)
(* "<alias>.<raw>" is a real concatenation and resolving it is a real      *)
(* split.  Message texts are strings.                                      *)
(***************************************************************************)
EXTENDS Integers, Sequences, FiniteSets, TLC

\* ---------------------------------------------------------------- bounds

\* Longest tool list one provider returns from GetTools.
MaxTools == 2
\* Most tool-call requests in one assistant message.
MaxBatch == 2
\* Longest history Reconnect is called with on its own.
MaxTranscript == 3
\* Most lines in a streamed response body.
MaxLines == 2
\* Size of the read buffer of StreamChatCompletion.
ChunkSize == 512

\* ------------------------------------------------------- inputs (strings)

AliasA == <<"a">>
AliasB == <<"b">>
AliasAB == <<"a", ".", "b">>
\* MCPConfig.Alias values handed to ManageMCP; the code accepts any string.
Aliases == {AliasA, AliasB, AliasAB}

RawC == <<"c">>
RawBC == <<"b", ".", "c">>
\* Tool.Name values a provider returns from tools/list.
RawNames == {RawC, RawBC}

\* All sequences over S of length 0..n.
RECURSIVE SeqsUpTo(_, _)
SeqsUpTo(S, n) ==
    IF n = 0 THEN {<<>>}
    ELSE LET shorter == SeqsUpTo(S, n - 1)
         IN shorter \cup {Append(s, x) : s \in {t \in shorter : Len(t) = n - 1}, x \in S}

Range(s) == {s[i] : i \in 1..Len(s)}

EmptyMap == [x \in {} |-> 0]

\* ------------------------------------------------------------ tool names

\* fmt.Sprintf("%s.%s", alias, mcpTool.Name)
Qualify(alias, raw) == alias \o <<".">> \o raw

\* Position of the first "." of a name, 0 when it has none.
FirstDot(name) ==
    IF \E i \in 1..Len(name) : name[i] = "."
    THEN CHOOSE i \in 1..Len(name) :
             name[i] = "." /\ \A j \in 1..(i - 1) : name[j] # "."
    ELSE 0

\* The agent's resolution of a qualified name: the alias is the prefix before
\* the first ".", the raw tool name is the rest ("fs.list_directory" gives
\* alias "fs" and tool "list_directory").
ResolveAlias(name) == SubSeq(name, 1, FirstDot(name) - 1)
ResolveRaw(name) == SubSeq(name, FirstDot(name) + 1, Len(name))
Resolve(name) == <<ResolveAlias(name), ResolveRaw(name)>>

\* ------------------------------------------------------ provider behaviour

\* What MCPClient.GetTools returns: an error, or the provider's tool list.
GetToolsOutcomes ==
    {[err |-> TRUE, tools |-> <<>>]}
        \cup {[err |-> FALSE, tools |-> l] : l \in SeqsUpTo(RawNames, MaxTools)}

\* mcpcore.Content blocks: TextContent, or any other (structured) content,
\* which json.Marshal turns into text.
TextContent(t) == [kind |-> "text", text |-> t]

\* mcpcore.CallToolResult values a provider returns from tools/call.
ToolResults ==
    { [isError |-> FALSE, content |-> <<TextContent("file1.txt")>>],
      [isError |-> TRUE, content |-> <<TextContent("boom")>>] }

NoResult == [isError |-> FALSE, content |-> <<>>]

\* What the underlying client's CallTool gives back: a transport error, or a
\* result.
CallToolOutcomes ==
    {[err |-> "transport closed", result |-> NoResult]}
        \cup {[err |-> "", result |-> r] : r \in ToolResults}

\* MCPClient.CallTool: the request put on the provider's transport
\* (callToolFunc(ctx, toolName, args), or client.CallTool with Name and
\* Arguments), and the result handed back to the caller.
CallToolRequestNoArgs(client, toolName, args) ==
    [client |-> client, name |-> toolName, arguments |-> {}]
CallToolRequest(client, toolName, args) ==
    [client |-> client, name |-> toolName, arguments |-> args]

CallToolReturn(out) ==
    IF out.err # ""
    THEN [err |-> "failed to call tool: " \o out.err, result |-> NoResult]
    ELSE [err |-> "", result |-> out.result]

\* ------------------------------------------------------------ synthesizer

\* Only the first block is written.
ConcatBlocksFirstOnly(content) ==
    IF content = <<>> THEN [text |-> "", err |-> ""]
    ELSE [text |-> IF Head(content).kind = "text" THEN Head(content).text
                   ELSE Head(content).json,
          err |-> ""]

RECURSIVE ConcatBlocks(_)
\* The strings.Builder loop of Synthesize: text blocks verbatim, any other
\* block as its JSON form; a block json.Marshal rejects fails the call.
ConcatBlocks(content) ==
    IF content = <<>> THEN [text |-> "", err |-> ""]
    ELSE LET c == Head(content)
             tail == ConcatBlocks(Tail(content))
         IN IF c.kind = "text"
            THEN IF tail.err # "" THEN tail
                 ELSE [text |-> c.text \o tail.text, err |-> ""]
            ELSE IF ~c.marshals
                 THEN [text |-> "", err |-> "failed to marshal content to JSON"]
                 ELSE IF tail.err # "" THEN tail
                      ELSE [text |-> c.json \o tail.text, err |-> ""]

\* Synthesizer.Synthesize
SynthesizeIgnoreIsError(result) == ConcatBlocks(result.content)
Synthesize(result) ==
    IF result.isError
    THEN IF Len(result.content) > 0 /\ result.content[1].kind = "text"
         THEN [text |-> "Tool returned an error: " \o result.content[1].text,
               err |-> ""]
         ELSE [text |-> "Tool returned an unspecified error.", err |-> ""]
    ELSE ConcatBlocks(result.content)

\* ------------------------------------------------------------ model client

\* FunctionCall.Arguments texts the model emits (JSON objects).
ArgPathDot == "{\"path\": \".\"}"
ArgEmpty == "{}"
ArgTexts == {ArgPathDot, ArgEmpty}

\* json.Unmarshal of the argument text into a map: the set of its
\* key/value pairs.
DecodeArgs(text) ==
    CASE text = ArgPathDot -> {<<"path", ".">>}
      [] text = ArgEmpty -> {}

\* Qualified names the model puts in its tool calls: "a.c" and "b.c".
CallNames == {Qualify(AliasA, RawC), Qualify(AliasB, RawC)}

\* FunctionCall values the model may emit.
ToolCallRequests == [name : CallNames, arguments : ArgTexts]

\* ToolCall values of one assistant message, with ids in the order emitted.
ToolCallsOf(reqs) ==
    [i \in 1..Len(reqs) |->
        [id |-> i, name |-> reqs[i].name, arguments |-> reqs[i].arguments]]

Message(role, content, toolCalls, toolCallId) ==
    [role |-> role, content |-> content, toolCalls |-> toolCalls,
     toolCallId |-> toolCallId]

\* Assistant messages the endpoint may answer with: text only, or a plan
\* with tool calls.
Replies ==
    {Message("assistant", c, <<>>, 0) : c \in {"", "Final answer"}}
        \cup {Message("assistant", "<plan>", ToolCallsOf(r), 0) :
                r \in SeqsUpTo(ToolCallRequests, MaxBatch) \ {<<>>}}

\* What the endpoint does with one request: the transport or status fails,
\* or it answers with a (possibly empty) list of choices.
EndpointResponses ==
    {[ok |-> FALSE, choices |-> <<>>], [ok |-> TRUE, choices |-> <<>>]}
        \cup {[ok |-> TRUE, choices |-> <<m>>] : m \in Replies}

\* The endpoint's answers explored together with discovery: a failure, a
\* final text, and a plan that calls tool "a.c".
TaskResponses ==
    { [ok |-> FALSE, choices |-> <<>>],
      [ok |-> TRUE, choices |-> <<Message("assistant", "Final answer", <<>>, 0)>>],
      [ok |-> TRUE,
       choices |-> <<Message("assistant", "<plan>",
                             ToolCallsOf(<<[name |-> Qualify(AliasA, RawC),
                                            arguments |-> ArgPathDot]>>), 0)>>] }

\* The text of the first choice of an answer that carries one; otherwise the
\* text kept so far.
ReplyText(resp, kept) ==
    IF resp.ok /\ Len(resp.choices) > 0 THEN resp.choices[1].content ELSE kept

\* LLMClient.CallChatCompletionWithToolChoice
CallChatCompletionAnyChoices(resp) ==
    IF ~resp.ok THEN [err |-> "error sending request", choices |-> <<>>]
    ELSE [err |-> "", choices |-> resp.choices]
CallChatCompletionWithToolChoice(resp) ==
    IF ~resp.ok THEN [err |-> "error sending request", choices |-> <<>>]
    ELSE IF Len(resp.choices) = 0
         THEN [err |-> "no choices in LLM response", choices |-> <<>>]
         ELSE [err |-> "", choices |-> resp.choices]

\* Reconnector.Reconnect: one more model call with tool_choice "none"; its
\* text is the answer.
ReconnectDropText(resp) ==
    LET llmResponse == CallChatCompletionWithToolChoice(resp)
    IN IF llmResponse.err # ""
       THEN [text |-> "",
             err |-> "failed to get final response from LLM: " \o llmResponse.err]
       ELSE [text |-> "", err |-> ""]
Reconnect(resp) ==
    LET llmResponse == CallChatCompletionWithToolChoice(resp)
    IN IF llmResponse.err # ""
       THEN [text |-> "",
             err |-> "failed to get final response from LLM: " \o llmResponse.err]
       ELSE IF Len(llmResponse.choices) = 0
            THEN \* llmResponse.Choices[0] of an empty slice: the goroutine
                 \* panics and Reconnect returns nothing
                 [text |-> "",
                  err |-> "panic: runtime error: index out of range [0] with length 0"]
            ELSE [text |-> llmResponse.choices[1].content, err |-> ""]

\* Tasks calling one provider client at a time.
MaxCallers == 3
Callers == 1..MaxCallers

\* ------------------------------------------------------------- variables

VARIABLES
    mcpClients,      \* Orchestrator.mcpClients: alias -> MCPClient
    pc,              \* where ExecuteTask is
    toVisit,         \* aliases the range loop of ExecuteTask has not visited
    fetched,         \* alias -> what GetTools returned in this task
    availableTools,  \* ExecuteTask's availableTools (qualified names)
    updates,         \* updates sent on updateChan, in order
    closed,          \* number of close(updateChan) calls
    phase,           \* state of the agent loop
    history,         \* the agent's conversation
    turn,            \* the agent's turn counter
    idx,             \* next request of the batch being dispatched
    invoked,         \* requests put on providers' transports, in order
    llmCalls,        \* model calls made for this task
    lastOut,         \* what the provider's transport gave for the latest call
    lastReply,       \* text of the endpoint's latest answer
    execResult,      \* what agent.Execute returned: [text, err]
    transcript,      \* Reconnect: the history it was called with
    sent,            \* Reconnect: the messages of its model call, once made
    answer,          \* Reconnect: what it returned, [text, err]
    stream,          \* StreamChatCompletion: the bytes of the response body
    ending,          \* how the body ends after them: "EOF" or "reset"
    arrived,         \* bytes of the body the peer has sent so far
    pos,             \* bytes of the body read so far
    buffer,          \* its buffer: bytes read and not yet cut into lines
    pending,         \* contents of the chunk being sent on chunkChan
    delivered,       \* contents the consumer received from chunkChan
    streamPc,        \* where StreamChatCompletion is
    streamRet,       \* the error it returned ("" for nil)
    ctxDone,         \* the caller's context is cancelled or past its deadline
    consumer,        \* "receiving" or "stopped"
    cancelled,       \* the context of the HTTP request of the task is cancelled
    writer,          \* ManageMCP calls storing into mcpClients: [alias, client]
    callPc,          \* MCPClient: where each caller's GetTools/CallTool is
    callOp,          \* MCPClient: the method each caller is in
    mu,              \* MCPClient.mu: the caller holding it, 0 when unlocked
    inFlight,        \* callers whose request is on MCPClient.client
    result,          \* Synthesize: the CallToolResult it is called with
    synthesized,     \* Synthesize: what it returned, [text, err], once called
    manageRet,       \* the error the latest ManageMCP call returned ("" for nil)
    handlerPc,       \* where handleOrchestrate is
    received,        \* updates the handler has received from updateChan
    written          \* updates the handler has written to the response

vars == <<mcpClients, pc, toVisit, fetched, availableTools,
          updates, closed, phase, history, turn, idx, invoked, llmCalls,
          lastOut, lastReply, execResult, transcript, sent, answer,
          stream, ending, arrived, pos, buffer, pending, delivered, streamPc,
          streamRet, ctxDone, consumer, cancelled, writer, callPc, callOp, mu,
          inFlight, result, synthesized, manageRet, handlerPc, received,
          written>>

orchVars == <<mcpClients>>
taskVars == <<pc, toVisit, fetched, availableTools, updates, closed>>
agentVars == <<phase, history, turn, idx, invoked, llmCalls, lastOut, lastReply,
               execResult>>

reconnectVars == <<transcript, sent, answer>>
streamVars == <<stream, ending, arrived, pos, buffer, pending, delivered,
                streamPc, streamRet, ctxDone, consumer>>
clientVars == <<callPc, callOp, mu, inFlight>>
concVars == <<writer, clientVars>>
synthVars == <<result, synthesized>>
serveVars == <<handlerPc, received, written>>
extraVars == <<synthVars, manageRet, serveVars>>
otherVars == <<reconnectVars, streamVars, cancelled, concVars, extraVars>>

NoExecResult == [text |-> "", err |-> ""]

\* The Reconnect call that is followed on its own has returned.
Reconnected == sent # <<>>

\* No Reconnect call of its own is being followed.
ReconnectAtRest ==
    /\ transcript = <<>>
    /\ sent = <<>>
    /\ answer = NoExecResult

\* No streamed call is being followed.
StreamAtRest ==
    /\ stream = <<>>
    /\ ending = "EOF"
    /\ arrived = 0
    /\ pos = 0
    /\ buffer = <<>>
    /\ pending = <<>>
    /\ delivered = <<>>
    /\ streamPc = "none"
    /\ streamRet = ""
    /\ ctxDone = FALSE
    /\ consumer = "receiving"

\* No registration is storing into the table.
WriterAtRest == writer = <<>>

\* No caller is in a method of the provider client that is followed on its own.
ClientAtRest ==
    /\ callPc = [c \in Callers |-> "idle"]
    /\ callOp = [c \in Callers |-> "none"]
    /\ mu = 0
    /\ inFlight = {}

ConcAtRest == WriterAtRest /\ ClientAtRest

\* No Synthesize call of its own is being followed.
SynthAtRest == result = NoResult /\ synthesized = <<>>

\* No ManageMCP call has returned.
RegisterAtRest == manageRet = <<>>

\* No handler of /orchestrate is being followed: the updates of a task are
\* taken as they are sent.
ServeAtRest == handlerPc = "none" /\ received = 0 /\ written = <<>>

ExtraAtRest == SynthAtRest /\ RegisterAtRest /\ ServeAtRest

OthersAtRest ==
    ReconnectAtRest /\ StreamAtRest /\ cancelled = FALSE /\ ConcAtRest /\ ExtraAtRest

\* NewOrchestrator: an empty registration table, no task running.
NewOrchestrator ==
    /\ mcpClients = EmptyMap
    /\ pc = "idle"
    /\ toVisit = {}
    /\ fetched = EmptyMap
    /\ availableTools = <<>>
    /\ updates = <<>>
    /\ closed = 0
    /\ phase = "None"
    /\ history = <<>>
    /\ turn = 0
    /\ idx = 0
    /\ invoked = <<>>
    /\ llmCalls = 0
    /\ lastOut = [err |-> "", result |-> NoResult]
    /\ lastReply = ""
    /\ execResult = NoExecResult

Init == NewOrchestrator /\ OthersAtRest

\* ------------------------------------------------------------ orchestrator

\* MCPConfig.Command values: the empty command, which NewMCPClient rejects,
\* and a provider executable.
Commands == {"", "filesys_mcp_exec"}

\* The MCPClient NewMCPClient builds: its alias and the process it talks to.
NewMCPClient(alias, command) == [alias |-> alias, command |-> command]

\* Orchestrator.ManageMCP: NewMCPClient fails on an empty command, or when
\* the process does not start or initialize; otherwise the client is stored
\* under the alias.
TableAfterManageMCPStoresAnyway(table, alias, command, started) ==
    (alias :> NewMCPClient(alias, command)) @@ table
TableAfterManageMCP(table, alias, command, started) ==
    IF command # "" /\ started
    THEN (alias :> NewMCPClient(alias, command)) @@ table
    ELSE table

ManageMCP(alias, command, started) ==
    /\ pc = "idle"
    /\ mcpClients' = TableAfterManageMCP(mcpClients, alias, command, started)
    /\ UNCHANGED <<taskVars, agentVars, otherVars>>

\* The error ManageMCP returns ("" for nil).
ManageMCPReturn(alias, command, started) ==
    IF command = ""
    THEN "failed to create MCP client: command cannot be empty for MCP client"
    ELSE IF ~started
         THEN "failed to create MCP client: failed to initialize MCP client"
         ELSE ""

\* OrchestrationUpdate
Update(type, content, error) ==
    [Type |-> type, Content |-> content, Error |-> error]

\* ExecuteTask is entered: the range loop over mcpClients starts with every
\* registered alias to visit; close(updateChan) is deferred.
BeginCloseNow ==
    /\ pc = "idle"
    /\ pc' = "discovering"
    /\ toVisit' = DOMAIN mcpClients
    /\ closed' = closed + 1
    /\ UNCHANGED <<fetched, availableTools, updates, orchVars, agentVars, otherVars>>
Begin ==
    /\ pc = "idle"
    /\ pc' = "discovering"
    /\ toVisit' = DOMAIN mcpClients
    /\ UNCHANGED <<fetched, availableTools, updates, closed, orchVars, agentVars, otherVars>>

\* The tools one provider adds to availableTools.
QualifiedTools(alias, tools) ==
    [i \in 1..Len(tools) |-> Qualify(alias, tools[i])]

\* availableTools after one iteration of the range loop: a provider whose
\* GetTools fails is skipped, the tools of any other are appended.
AfterGetToolsStopAtError(tools, alias, out) ==
    IF out.err THEN <<>> ELSE tools \o QualifiedTools(alias, out.tools)
AfterGetTools(tools, alias, out) ==
    IF out.err THEN tools ELSE tools \o QualifiedTools(alias, out.tools)

\* One iteration of the range loop, for any alias not yet visited (Go ranges
\* over a map in no fixed order).
Discover(alias, out) ==
    /\ pc = "discovering"
    /\ alias \in toVisit
    /\ toVisit' = toVisit \ {alias}
    /\ fetched' = (alias :> out) @@ fetched
    /\ availableTools' = AfterGetTools(availableTools, alias, out)
    /\ UNCHANGED <<pc, updates, closed, orchVars, agentVars, otherVars>>

\* len(availableTools) == 0
CatalogEmptyNever(tools) == FALSE
CatalogEmpty(tools) == Len(tools) = 0

\* The loop is over and no tool was found: the error update, then return.
NoTools ==
    /\ pc = "discovering"
    /\ toVisit = {}
    /\ CatalogEmpty(availableTools)
    /\ updates' = Append(updates,
                         Update("error", "No tools available from connected agents.",
                                "no tools available"))
    /\ pc' = "returning"
    /\ UNCHANGED <<toVisit, fetched, availableTools, closed, orchVars, agentVars, otherVars>>

\* NewAgent(o.llmClient, o.mcpClients, o.logger, availableTools), and
\* agent.Execute is entered.
StartAgent ==
    /\ pc = "discovering"
    /\ toVisit = {}
    /\ ~CatalogEmpty(availableTools)
    /\ pc' = "agent"
    /\ phase' = "Planning"
    /\ UNCHANGED <<toVisit, fetched, availableTools, updates, closed, orchVars,
                   history, turn, idx, invoked, llmCalls, lastOut, lastReply,
                   execResult, otherVars>>

\* The updates ExecuteTask sends once agent.Execute has returned.
TerminalUpdatesNoReturn(res) ==
    IF res.err # ""
    THEN << Update("error", "Agent execution failed: " \o res.err, res.err),
            Update("result", res.text, "") >>
    ELSE << Update("result", res.text, "") >>
TerminalUpdatesAlwaysResult(res) == << Update("result", res.text, "") >>
TerminalUpdates(res) ==
    IF res.err # ""
    THEN << Update("error", "Agent execution failed: " \o res.err, res.err) >>
    ELSE << Update("result", res.text, "") >>

\* agent.Execute has returned: the error update or the result update.
Finish ==
    /\ pc = "agent"
    /\ phase \in {"Done", "Failed"}
    /\ updates' = updates \o TerminalUpdates(execResult)
    /\ pc' = "returning"
    /\ UNCHANGED <<toVisit, fetched, availableTools, closed, orchVars, agentVars, otherVars>>

\* ExecuteTask returns: the deferred close(updateChan) runs.
Return ==
    /\ pc = "returning"
    /\ closed' = closed + 1
    /\ pc' = "returned"
    /\ UNCHANGED <<toVisit, fetched, availableTools, updates, orchVars, agentVars, otherVars>>


\* -------------------------------------------------------------- agent loop

\* Most turns of the loop: an assistant message that still requests tools
\* in turn MaxTurns ends the loop with a TurnLimitError.
MaxTurns == 1

PlanningPrompt == "You are the Nexus Orchestrator. Plan the task."
Query == "list files in current directory"
TurnLimitError == "turn limit exceeded"
ResolutionError == "Error: unknown provider alias"

\* The conversation a planning call starts from.
Seed == << Message("system", PlanningPrompt, <<>>, 0),
           Message("user", Query, <<>>, 0) >>

\* The latest assistant message of a conversation that holds one.
LatestAssistant(h) ==
    h[CHOOSE i \in 1..Len(h) :
        h[i].role = "assistant" /\ \A j \in (i + 1)..Len(h) : h[j].role # "assistant"]

\* The tool-call requests being dispatched.
Batch == LatestAssistant(history).toolCalls

Failed(err) == [text |-> "", err |-> err]

\* Planning: one model call with the planning prompt, the catalog and the
\* query; its assistant message opens the conversation.
Plan(resp) ==
    /\ pc = "agent"
    /\ phase = "Planning"
    /\ llmCalls' = llmCalls + 1
    /\ LET r == CallChatCompletionWithToolChoice(resp)
       IN IF r.err # ""
          THEN /\ phase' = "Failed"
               /\ execResult' = Failed(r.err)
               /\ history' = Seed
          ELSE /\ phase' = "Executing"
               /\ execResult' = execResult
               /\ history' = Append(Seed, r.choices[1])
    /\ turn' = 0
    /\ lastReply' = ReplyText(resp, lastReply)
    /\ UNCHANGED <<idx, invoked, lastOut, orchVars, taskVars, otherVars>>

\* Executing(n): where the loop goes from the latest assistant message.
AfterExecutingIgnoreLimit(toolCalls, n) ==
    IF Len(toolCalls) = 0 THEN "Finalizing" ELSE "ToolDispatch"
AfterExecutingSkipFinalizing(toolCalls, n) ==
    IF Len(toolCalls) = 0 THEN "Done"
    ELSE IF n >= MaxTurns THEN "Failed"
         ELSE "ToolDispatch"
AfterExecuting(toolCalls, n) ==
    IF Len(toolCalls) = 0 THEN "Finalizing"
    ELSE IF n >= MaxTurns THEN "Failed"
         ELSE "ToolDispatch"

Executing ==
    /\ pc = "agent"
    /\ phase = "Executing"
    /\ phase' = AfterExecuting(Batch, turn)
    /\ execResult' = IF phase' = "Failed" THEN Failed(TurnLimitError) ELSE execResult
    /\ idx' = 1
    /\ UNCHANGED <<history, turn, invoked, llmCalls, lastOut, lastReply, orchVars,
                   taskVars, otherVars>>

\* The tool-result message of one request, tagged with the request's id.
ToolMessageUntagged(call, text) == Message("tool", text, <<>>, 0)
ToolMessage(call, text) == Message("tool", text, <<>>, call.id)

\* The text fed back for one provider call: the synthesized result, or the
\* error as text.
ResultText(ret) ==
    IF ret.err # "" THEN "Error: " \o ret.err
    ELSE LET s == Synthesize(ret.result)
         IN IF s.err # "" THEN "Error: " \o s.err ELSE s.text

\* A request whose alias is not in the registration table: no provider is
\* called, the resolution error is fed back.
HistoryAfterUnknownSkip(h, call) == h
HistoryAfterUnknown(h, call) == Append(h, ToolMessage(call, ResolutionError))

DispatchUnknown ==
    /\ pc = "agent"
    /\ phase = "ToolDispatch"
    /\ idx <= Len(Batch)
    /\ ResolveAlias(Batch[idx].name) \notin DOMAIN mcpClients
    /\ history' = HistoryAfterUnknown(history, Batch[idx])
    /\ idx' = idx + 1
    /\ UNCHANGED <<phase, turn, invoked, llmCalls, lastOut, lastReply, execResult,
                   orchVars, taskVars, otherVars>>

\* The provider a qualified name is routed to.
ClientFor(name) == mcpClients[ResolveAlias(name)]

ToolFailed(ret) == ret.err # "" \/ ret.result.isError

\* The loop's state after one provider call.
PhaseAfterCall(ret) == "ToolDispatch"

\* A request whose alias is registered: the provider is called with the raw
\* tool name and the decoded arguments, and the outcome is fed back.
DispatchCall(out) ==
    /\ pc = "agent"
    /\ phase = "ToolDispatch"
    /\ idx <= Len(Batch)
    /\ ResolveAlias(Batch[idx].name) \in DOMAIN mcpClients
    /\ LET call == Batch[idx]
           ret == CallToolReturn(out)
       IN /\ invoked' = Append(invoked,
                               CallToolRequest(ClientFor(call.name),
                                               ResolveRaw(call.name),
                                               DecodeArgs(call.arguments)))
          /\ history' = Append(history, ToolMessage(call, ResultText(ret)))
          /\ phase' = PhaseAfterCall(ret)
          /\ execResult' = IF phase' = "Failed" THEN Failed(ResultText(ret))
                           ELSE execResult
    /\ idx' = idx + 1
    /\ lastOut' = out
    /\ UNCHANGED <<turn, llmCalls, lastReply, orchVars, taskVars, otherVars>>

\* The batch is dispatched: the model is called again with the conversation,
\* and the loop re-enters Executing with the turn counter incremented.
NextTurn(resp) ==
    /\ pc = "agent"
    /\ phase = "ToolDispatch"
    /\ idx > Len(Batch)
    /\ llmCalls' = llmCalls + 1
    /\ LET r == CallChatCompletionWithToolChoice(resp)
       IN IF r.err # ""
          THEN /\ phase' = "Failed"
               /\ execResult' = Failed(r.err)
               /\ UNCHANGED <<history, turn>>
          ELSE /\ phase' = "Executing"
               /\ execResult' = execResult
               /\ history' = Append(history, r.choices[1])
               /\ turn' = turn + 1
    /\ lastReply' = ReplyText(resp, lastReply)
    /\ UNCHANGED <<idx, invoked, lastOut, orchVars, taskVars, otherVars>>

\* Finalizing: the reconnector's answer is what Execute returns.
FinalizeWith(r) ==
    IF r.err # "" THEN Failed(r.err) ELSE [text |-> r.text, err |-> ""]

Finalize(resp) ==
    /\ pc = "agent"
    /\ phase = "Finalizing"
    /\ llmCalls' = llmCalls + 1
    /\ execResult' = FinalizeWith(Reconnect(resp))
    /\ phase' = IF execResult'.err # "" THEN "Failed" ELSE "Done"
    /\ lastReply' = ReplyText(resp, lastReply)
    /\ UNCHANGED <<history, turn, idx, invoked, lastOut, orchVars, taskVars, otherVars>>

\* ------------------------------------------------- reconnector on its own

SummaryPrompt ==
    "Please provide a summary or a final answer based on the conversation history."

\* Messages of the histories Reconnect is called with.
TranscriptMessages ==
    {Message("user", Query, <<>>, 0),
     Message("assistant", "", <<>>, 0),
     Message("assistant", "X", <<>>, 0),
     Message("assistant", "Final answer", <<>>, 0)}

Transcripts == SeqsUpTo(TranscriptMessages, MaxTranscript)

\* Reconnector.Reconnect(ctx, history): the model is called with the history
\* and one more user message, and the text of its first choice is returned.
ReconnectCall(resp) ==
    /\ sent = <<>>
    /\ sent' = Append(transcript, Message("user", SummaryPrompt, <<>>, 0))
    /\ answer' = Reconnect(resp)
    /\ UNCHANGED <<transcript, orchVars, taskVars, agentVars, streamVars,
                   cancelled, concVars, extraVars>>

\* Reconnect about to be called with any history; nothing else runs.
InitReconnect ==
    /\ NewOrchestrator
    /\ transcript \in Transcripts
    /\ sent = <<>>
    /\ answer = NoExecResult
    /\ StreamAtRest
    /\ cancelled = FALSE
    /\ ConcAtRest
    /\ ExtraAtRest

NextReconnect == \E resp \in EndpointResponses : ReconnectCall(resp)

SpecReconnect == InitReconnect /\ [][NextReconnect]_vars

\* ------------------------------------------------------ streaming parser

\* Bytes are one-character strings.
DataPrefix ==
    <<"d", "a", "t", "a", ":">>
DoneLine ==
    <<"d", "a", "t", "a", ":", " ", "[", "D", "O", "N", "E", "]">>
JsonA ==
    <<"{", "\"", "c", "h", "o", "i", "c", "e", "s", "\"", ":", "[", "{",
      "\"", "d", "e", "l", "t", "a", "\"", ":", "{", "\"", "c", "o", "n",
      "t", "e", "n", "t", "\"", ":", "\"", "a", "\"", "}", "}", "]", "}">>
JsonB ==
    <<"{", "\"", "c", "h", "o", "i", "c", "e", "s", "\"", ":", "[", "{",
      "\"", "d", "e", "l", "t", "a", "\"", ":", "{", "\"", "c", "o", "n",
      "t", "e", "n", "t", "\"", ":", "\"", "b", "\"", "}", "}", "]", "}">>
JsonBad ==
    <<"{">>

\* Lines a response body is made of, each with its line end: two content
\* events (one ended by LF, one by CRLF), the sentinel, a blank line, and an
\* event whose JSON is cut short.
LineA == DataPrefix \o <<" ">> \o JsonA \o <<"\n">>
LineB == DataPrefix \o <<" ">> \o JsonB \o <<"\r", "\n">>
LineDone == DoneLine \o <<"\n">>
LineBlank == <<"\n">>
LineBad == DataPrefix \o JsonBad \o <<"\n">>
BodyLines == {LineA, LineB, LineDone, LineBlank, LineBad}

RECURSIVE Concat(_)
Concat(ls) == IF ls = <<>> THEN <<>> ELSE Head(ls) \o Concat(Tail(ls))

\* Response bodies: up to MaxLines lines, the body with an event on each
\* side of the sentinel, and the body with an event on each side of an event
\* whose JSON is cut short; the last line with or without its final byte.
Bodies ==
    LET whole == {Concat(ls) : ls \in SeqsUpTo(BodyLines, MaxLines)}
                     \cup {LineA \o LineDone \o LineB, LineA \o LineBad \o LineB}
    IN whole \cup {SubSeq(b, 1, Len(b) - 1) : b \in whole \ {<<>>}}

\* extractLine: the buffer's first line with its '\n', and the rest; no line
\* (io.EOF) when the buffer holds no '\n'.
HasLine(buf) == \E i \in 1..Len(buf) : buf[i] = "\n"
FirstNewline(buf) ==
    CHOOSE i \in 1..Len(buf) : buf[i] = "\n" /\ \A j \in 1..(i - 1) : buf[j] # "\n"
extractLine(buf) ==
    [line |-> SubSeq(buf, 1, FirstNewline(buf)),
     rest |-> SubSeq(buf, FirstNewline(buf) + 1, Len(buf))]

\* strings.TrimSpace, strings.HasPrefix, strings.TrimPrefix
IsSpace(c) == c \in {" ", "\n", "\r", "\t"}
TrimSpaceNone(t) == t
TrimSpace(t) ==
    IF \A i \in 1..Len(t) : IsSpace(t[i]) THEN <<>>
    ELSE LET first == CHOOSE i \in 1..Len(t) :
                          ~IsSpace(t[i]) /\ \A j \in 1..(i - 1) : IsSpace(t[j])
             last == CHOOSE i \in 1..Len(t) :
                         ~IsSpace(t[i]) /\ \A j \in (i + 1)..Len(t) : IsSpace(t[j])
         IN SubSeq(t, first, last)
HasPrefix(t, prefix) ==
    Len(t) >= Len(prefix) /\ SubSeq(t, 1, Len(prefix)) = prefix
TrimPrefix(t, prefix) ==
    IF HasPrefix(t, prefix) THEN SubSeq(t, Len(prefix) + 1, Len(t)) ELSE t

\* json.Unmarshal into ChatCompletionStreamChunk: the Delta.Content of each
\* choice, or an error.
Unmarshal(jsonStr) ==
    CASE jsonStr = JsonA -> [err |-> FALSE, contents |-> <<"a">>]
      [] jsonStr = JsonB -> [err |-> FALSE, contents |-> <<"b">>]
      [] OTHER -> [err |-> TRUE, contents |-> <<>>]

\* What one line of the body makes the parser do: stop at the sentinel, or
\* send the non-empty contents of a data event; every other line is passed
\* over.
ProcessLineBadEnds(rawLine) ==
    LET line == TrimSpace(rawLine)
    IN IF line = DoneLine THEN [done |-> TRUE, contents |-> <<>>]
       ELSE IF HasPrefix(line, DataPrefix)
            THEN LET streamChunk == Unmarshal(TrimSpace(TrimPrefix(line, DataPrefix)))
                 IN [done |-> streamChunk.err,
                     contents |-> SelectSeq(streamChunk.contents,
                                            LAMBDA c : c # "")]
            ELSE [done |-> FALSE, contents |-> <<>>]
ProcessLine(rawLine) ==
    LET line == TrimSpace(rawLine)
    IN IF line = DoneLine THEN [done |-> TRUE, contents |-> <<>>]
       ELSE IF HasPrefix(line, DataPrefix)
            THEN LET streamChunk == Unmarshal(TrimSpace(TrimPrefix(line, DataPrefix)))
                 IN [done |-> FALSE,
                     contents |-> SelectSeq(streamChunk.contents,
                                            LAMBDA c : c # "")]
            ELSE [done |-> FALSE, contents |-> <<>>]

\* buffer = append(buffer, chunk[:n]...)
AppendChunk(buf, chunk) == buf \o chunk

Min(a, b) == IF a < b THEN a ELSE b

streamReturn(err) ==
    /\ streamPc' = "returned"
    /\ streamRet' = err

\* Top of the read loop: a done context ends the call.
StreamTop ==
    /\ streamPc = "top"
    /\ IF ctxDone
       THEN streamReturn("context canceled")
       ELSE streamPc' = "read" /\ UNCHANGED streamRet
    /\ UNCHANGED <<stream, ending, arrived, pos, buffer, pending, delivered,
                   ctxDone, consumer, reconnectVars, orchVars, taskVars,
                   agentVars, cancelled, concVars, extraVars>>

\* reader.Read gives n of the bytes that have arrived, at most a chunk.
StreamRead(n) ==
    /\ streamPc = "read"
    /\ n \in 1..Min(ChunkSize, arrived - pos)
    /\ buffer' = AppendChunk(buffer, SubSeq(stream, pos + 1, pos + n))
    /\ pos' = pos + n
    /\ streamPc' = "lines"
    /\ UNCHANGED <<stream, ending, arrived, pending, delivered, streamRet,
                   ctxDone, consumer, reconnectVars, orchVars, taskVars,
                   agentVars, cancelled, concVars, extraVars>>

\* reader.Read at the end of the body: io.EOF ends the call without error,
\* any other read error with it.
StreamReadEnd ==
    /\ streamPc = "read"
    /\ pos = Len(stream)
    /\ streamReturn(IF ending = "EOF" THEN ""
                    ELSE "error reading stream: connection reset")
    /\ UNCHANGED <<stream, ending, arrived, pos, buffer, pending, delivered,
                   ctxDone, consumer, reconnectVars, orchVars, taskVars,
                   agentVars, cancelled, concVars, extraVars>>

\* reader.Read on the body of a request whose context is done: the read
\* fails, whether or not bytes were waiting.
StreamReadCancelled ==
    /\ streamPc = "read"
    /\ ctxDone
    /\ streamReturn("error reading stream: context canceled")
    /\ UNCHANGED <<stream, ending, arrived, pos, buffer, pending, delivered,
                   ctxDone, consumer, reconnectVars, orchVars, taskVars,
                   agentVars, cancelled, concVars, extraVars>>

\* One turn of the line loop: no full line left sends the loop back to the
\* top; the sentinel ends the call; a data event's contents are to be sent.
StreamLineDropPartial ==
    /\ streamPc = "lines"
    /\ IF ~HasLine(buffer)
       THEN /\ streamPc' = "top"
            /\ buffer' = <<>>
            /\ UNCHANGED <<pending, streamRet>>
       ELSE LET x == extractLine(buffer)
                r == ProcessLine(x.line)
            IN /\ buffer' = x.rest
               /\ IF r.done
                  THEN streamReturn("") /\ UNCHANGED pending
                  ELSE /\ pending' = r.contents
                       /\ streamPc' = IF r.contents = <<>> THEN "lines" ELSE "send"
                       /\ UNCHANGED streamRet
    /\ UNCHANGED <<stream, ending, arrived, pos, delivered, ctxDone, consumer,
                   reconnectVars, orchVars, taskVars, agentVars, cancelled, concVars, extraVars>>
StreamLine ==
    /\ streamPc = "lines"
    /\ IF ~HasLine(buffer)
       THEN /\ streamPc' = "top"
            /\ UNCHANGED <<buffer, pending, streamRet>>
       ELSE LET x == extractLine(buffer)
                r == ProcessLine(x.line)
            IN /\ buffer' = x.rest
               /\ IF r.done
                  THEN streamReturn("") /\ UNCHANGED pending
                  ELSE /\ pending' = r.contents
                       /\ streamPc' = IF r.contents = <<>> THEN "lines" ELSE "send"
                       /\ UNCHANGED streamRet
    /\ UNCHANGED <<stream, ending, arrived, pos, delivered, ctxDone, consumer,
                   reconnectVars, orchVars, taskVars, agentVars, cancelled, concVars, extraVars>>

\* chunkChan <- choice.Delta.Content: the send completes when the consumer
\* receives.
StreamSend ==
    /\ streamPc = "send"
    /\ consumer = "receiving"
    /\ delivered' = Append(delivered, Head(pending))
    /\ pending' = Tail(pending)
    /\ streamPc' = IF Tail(pending) = <<>> THEN "lines" ELSE "send"
    /\ UNCHANGED <<stream, ending, arrived, pos, buffer, streamRet, ctxDone,
                   consumer, reconnectVars, orchVars, taskVars, agentVars, cancelled, concVars, extraVars>>

RECURSIVE DrainLines(_, _)
\* The line loop run on a buffer to its end: the contents sent, and whether
\* the sentinel was met.
DrainLines(buf, out) ==
    IF ~HasLine(buf) THEN [delivered |-> out, done |-> FALSE]
    ELSE LET x == extractLine(buf)
             r == ProcessLine(x.line)
         IN IF r.done THEN [delivered |-> out, done |-> TRUE]
            ELSE DrainLines(x.rest, out \o r.contents)

\* StreamChatCompletion on a body that arrives in one read: the line loop
\* runs once on all of it, and the next read gives the body's end.
OneRead(body, end) ==
    LET d == DrainLines(body, <<>>)
    IN [delivered |-> d.delivered,
        ret |-> IF d.done \/ end = "EOF" THEN ""
                ELSE "error reading stream: connection reset"]

\* StreamChatCompletion past its request, at the first read of a body that
\* has arrived whole, with a consumer that receives.
InitStream ==
    /\ NewOrchestrator
    /\ ReconnectAtRest
    /\ stream \in Bodies
    /\ ending \in {"EOF", "reset"}
    /\ arrived = Len(stream)
    /\ pos = 0
    /\ buffer = <<>>
    /\ pending = <<>>
    /\ delivered = <<>>
    /\ streamPc = "top"
    /\ streamRet = ""
    /\ ctxDone = FALSE
    /\ consumer = "receiving"
    /\ cancelled = FALSE
    /\ ConcAtRest
    /\ ExtraAtRest

\* Every way of cutting the body into reads.
NextStream ==
    \/ StreamTop
    \/ \E n \in 1..Min(ChunkSize, Len(stream)) : StreamRead(n)
    \/ StreamReadEnd
    \/ StreamLine
    \/ StreamSend

SpecStream == InitStream /\ [][NextStream]_vars

\* The peer sends k more bytes of the body.
PeerSends(k) ==
    /\ streamPc # "none"
    /\ k \in 1..(Len(stream) - arrived)
    /\ arrived' = arrived + k
    /\ UNCHANGED <<stream, ending, pos, buffer, pending, delivered, streamPc,
                   streamRet, ctxDone, consumer, reconnectVars, orchVars,
                   taskVars, agentVars, cancelled, concVars, extraVars>>

\* The caller cancels its context, or the context's deadline passes.
CtxDone ==
    /\ streamPc # "none"
    /\ ~ctxDone
    /\ ctxDone' = TRUE
    /\ UNCHANGED <<stream, ending, arrived, pos, buffer, pending, delivered,
                   streamPc, streamRet, consumer, reconnectVars, orchVars,
                   taskVars, agentVars, cancelled, concVars, extraVars>>

\* The consumer of chunkChan stops receiving.
ConsumerStops ==
    /\ streamPc # "none"
    /\ consumer = "receiving"
    /\ consumer' = "stopped"
    /\ UNCHANGED <<stream, ending, arrived, pos, buffer, pending, delivered,
                   streamPc, streamRet, ctxDone, reconnectVars, orchVars,
                   taskVars, agentVars, cancelled, concVars, extraVars>>

\* Bodies of the calls followed with their peer, context and consumer.
LiveBodies == {LineA, LineBad \o LineDone}

\* StreamChatCompletion at its first read, nothing of the body arrived yet.
InitStreamLive ==
    /\ NewOrchestrator
    /\ ReconnectAtRest
    /\ stream \in LiveBodies
    /\ ending \in {"EOF", "reset"}
    /\ arrived = 0
    /\ pos = 0
    /\ buffer = <<>>
    /\ pending = <<>>
    /\ delivered = <<>>
    /\ streamPc = "top"
    /\ streamRet = ""
    /\ ctxDone = FALSE
    /\ consumer = "receiving"
    /\ cancelled = FALSE
    /\ ConcAtRest
    /\ ExtraAtRest

\* The steps StreamChatCompletion takes by itself or with a consumer that
\* receives.
StreamStep ==
    \/ StreamTop
    \/ \E n \in 1..Min(ChunkSize, Len(stream)) : StreamRead(n)
    \/ StreamReadEnd
    \/ StreamReadCancelled
    \/ StreamLine
    \/ StreamSend

NextStreamLive ==
    \/ StreamTop
    \/ \E n \in 1..Min(ChunkSize, Len(stream)) : StreamRead(n)
    \/ StreamReadEnd
    \/ StreamReadCancelled
    \/ StreamLine
    \/ StreamSend
    \/ \E k \in 1..Len(stream) : PeerSends(k)
    \/ CtxDone
    \/ ConsumerStops

\* StreamChatCompletion runs when it can: a read returns once bytes, the end
\* of the body or the end of the context are there, and a send completes
\* while the consumer receives.  The peer, the caller and the consumer are
\* under no obligation.
SpecStreamLive ==
    InitStreamLive /\ [][NextStreamLive]_vars /\ WF_vars(StreamStep)

\* ---------------------------------------------------------- specification

\* One task from registration to return: every registration, every discovery
\* outcome, and the agent loop against the answers of TaskResponses.
Next ==
    \/ \E alias \in Aliases, command \in Commands, started \in BOOLEAN :
           ManageMCP(alias, command, started)
    \/ Begin
    \/ \E alias \in Aliases, out \in GetToolsOutcomes : Discover(alias, out)
    \/ NoTools
    \/ StartAgent
    \/ \E resp \in TaskResponses : Plan(resp)
    \/ Executing
    \/ DispatchUnknown
    \/ \E out \in CallToolOutcomes : DispatchCall(out)
    \/ \E resp \in TaskResponses : NextTurn(resp)
    \/ \E resp \in TaskResponses : Finalize(resp)
    \/ Finish
    \/ Return

Spec == Init /\ [][Next]_vars

\* The steps of ExecuteTask and of the agent it runs.
TaskStep ==
    \/ Begin
    \/ \E alias \in Aliases, out \in GetToolsOutcomes : Discover(alias, out)
    \/ NoTools
    \/ StartAgent
    \/ \E resp \in TaskResponses : Plan(resp)
    \/ Executing
    \/ DispatchUnknown
    \/ \E out \in CallToolOutcomes : DispatchCall(out)
    \/ \E resp \in TaskResponses : NextTurn(resp)
    \/ \E resp \in TaskResponses : Finalize(resp)
    \/ Finish
    \/ Return

\* ExecuteTask runs in a goroutine of its own (server.go, go ExecuteTask) and
\* every call it makes returns (GetTools under its 5 s deadline, the model
\* call under the HTTP client's timeout): a step of the task that can be
\* taken is taken.  Registrations are under no such obligation.
SpecLive == Spec /\ WF_vars(TaskStep)

\* Commands of registrations that are told apart: a second executable.
RegCommands == Commands \cup {"other_mcp_exec"}

\* Tasks between registrations of providers "a" and "b", each under either
\* executable.
NextRegister ==
    \/ \E alias \in {AliasA, AliasB}, command \in RegCommands, started \in BOOLEAN :
           ManageMCP(alias, command, started)
    \/ Begin
    \/ \E alias \in Aliases, out \in GetToolsOutcomes : Discover(alias, out)
    \/ NoTools
    \/ StartAgent
    \/ \E resp \in TaskResponses : Plan(resp)
    \/ Executing
    \/ DispatchUnknown
    \/ \E out \in CallToolOutcomes : DispatchCall(out)
    \/ \E resp \in TaskResponses : NextTurn(resp)
    \/ \E resp \in TaskResponses : Finalize(resp)
    \/ Finish
    \/ Return

SpecRegister == Init /\ [][NextRegister]_vars

\* ManageMCP followed with what it returns: the alias it was called for and
\* its error.
ManageMCPCall(alias, command, started) ==
    /\ pc = "idle"
    /\ mcpClients' = TableAfterManageMCP(mcpClients, alias, command, started)
    /\ manageRet' = <<[alias |-> alias,
                       err |-> ManageMCPReturn(alias, command, started)]>>
    /\ UNCHANGED <<taskVars, agentVars, reconnectVars, streamVars, cancelled,
                   concVars, synthVars, serveVars>>

\* Registrations only, of every alias under every command, started or not.
NextManage ==
    \E alias \in Aliases, command \in RegCommands, started \in BOOLEAN :
        ManageMCPCall(alias, command, started)

SpecManage == Init /\ [][NextManage]_vars

\* ------------------------------------------------ handler of /orchestrate
\* handleOrchestrate past go ExecuteTask: it ranges over the unbuffered
\* updateChan.  A send of ExecuteTask is taken when the handler receives it,
\* and ExecuteTask goes on only then.

\* Every update ExecuteTask sent has been received.
SendTaken == received = Len(updates)

\* One turn of for update := range updateChan: the handler receives the
\* update ExecuteTask is sending, writes it to the response and returns when
\* it is a "result" or an "error", and waits for the next otherwise; on the
\* closed channel with nothing left to receive the loop ends and the handler
\* returns.
HandlerStep ==
    /\ handlerPc = "receiving"
    /\ received < Len(updates) \/ closed > 0
    /\ IF received < Len(updates)
       THEN /\ received' = received + 1
            /\ IF updates[received + 1].Type \in {"result", "error"}
               THEN /\ written' = Append(written, updates[received + 1])
                    /\ handlerPc' = "returned"
               ELSE UNCHANGED <<written, handlerPc>>
       ELSE /\ handlerPc' = "returned"
            /\ UNCHANGED <<received, written>>
    /\ UNCHANGED <<orchVars, taskVars, agentVars, reconnectVars, streamVars,
                   cancelled, concVars, synthVars, manageRet>>

\* A step of ExecuteTask, which is not blocked in a send.
ServedTaskStep == SendTaken /\ TaskStep

\* A request to /orchestrate has been decoded and the handler has started
\* ExecuteTask; providers "a" and "b" are registered before the task runs.
InitServe ==
    /\ NewOrchestrator
    /\ ReconnectAtRest
    /\ StreamAtRest
    /\ cancelled = FALSE
    /\ ConcAtRest
    /\ SynthAtRest
    /\ RegisterAtRest
    /\ handlerPc = "receiving"
    /\ received = 0
    /\ written = <<>>

NextServe ==
    \/ \E alias \in {AliasA, AliasB}, command \in Commands, started \in BOOLEAN :
           ManageMCP(alias, command, started)
    \/ SendTaken /\ Begin
    \/ SendTaken /\ \E alias \in Aliases, out \in GetToolsOutcomes : Discover(alias, out)
    \/ SendTaken /\ NoTools
    \/ SendTaken /\ StartAgent
    \/ SendTaken /\ \E resp \in TaskResponses : Plan(resp)
    \/ SendTaken /\ Executing
    \/ SendTaken /\ DispatchUnknown
    \/ SendTaken /\ \E out \in CallToolOutcomes : DispatchCall(out)
    \/ SendTaken /\ \E resp \in TaskResponses : NextTurn(resp)
    \/ SendTaken /\ \E resp \in TaskResponses : Finalize(resp)
    \/ SendTaken /\ Finish
    \/ SendTaken /\ Return
    \/ HandlerStep

\* The handler's goroutine and ExecuteTask's both run on: a step either can
\* take is taken.
SpecServe ==
    InitServe /\ [][NextServe]_vars /\ WF_vars(ServedTaskStep) /\ WF_vars(HandlerStep)

\* ManageMCP called while a task may be running (any goroutine may call it;
\* the Orchestrator has no lock).  NewMCPClient has succeeded and the store
\* o.mcpClients[config.Alias] = client begins: nothing orders it with the
\* task's reads of the table, so it is followed from its beginning to its end.
ManageMCPStore(alias, command) ==
    /\ pc # "crashed"
    /\ writer = <<>>
    /\ command # ""
    /\ writer' = <<[alias |-> alias, client |-> NewMCPClient(alias, command)]>>
    /\ UNCHANGED <<orchVars, taskVars, agentVars, reconnectVars, streamVars,
                   cancelled, clientVars, extraVars>>

\* The range loop of ExecuteTask is iterating over the table: it has entries
\* left to visit.
Iterating == pc = "discovering" /\ toVisit # {}

\* The agent, built with the table itself, is about to look a provider up.
LookingUp == pc = "agent" /\ phase = "ToolDispatch"

\* The store ends and ManageMCP returns nil.  A key stored while the range
\* loop iterates may be produced by the iteration or skipped.
ManageMCPStored(seen) ==
    /\ pc # "crashed"
    /\ writer # <<>>
    /\ mcpClients' = (writer[1].alias :> writer[1].client) @@ mcpClients
    /\ toVisit' = IF Iterating /\ seen /\ writer[1].alias \notin DOMAIN mcpClients
                  THEN toVisit \cup {writer[1].alias}
                  ELSE toVisit
    /\ writer' = <<>>
    /\ UNCHANGED <<pc, fetched, availableTools, updates, closed, agentVars,
                   reconnectVars, streamVars, cancelled, clientVars, extraVars>>

\* The Go runtime finds the map written while it is iterated or read
\* ("fatal error: concurrent map iteration and map write"): the process ends.
Fatal ==
    /\ writer # <<>>
    /\ Iterating \/ LookingUp
    /\ pc' = "crashed"
    /\ UNCHANGED <<toVisit, fetched, availableTools, updates, closed, orchVars,
                   agentVars, otherVars>>

\* A task and registrations of providers "a" and "b" at any time.
NextConcurrent ==
    \/ \E alias \in {AliasA, AliasB} : ManageMCPStore(alias, "filesys_mcp_exec")
    \/ \E seen \in BOOLEAN : ManageMCPStored(seen)
    \/ Fatal
    \/ Begin
    \/ \E alias \in Aliases, out \in GetToolsOutcomes : Discover(alias, out)
    \/ NoTools
    \/ StartAgent
    \/ \E resp \in TaskResponses : Plan(resp)
    \/ Executing
    \/ DispatchUnknown
    \/ \E out \in CallToolOutcomes : DispatchCall(out)
    \/ \E resp \in TaskResponses : NextTurn(resp)
    \/ \E resp \in TaskResponses : Finalize(resp)
    \/ Finish
    \/ Return

SpecConcurrent == Init /\ [][NextConcurrent]_vars

\* ---------------------------------------------------- provider client lock
\* One MCPClient built by NewMCPClient (its callToolFunc is nil) whose
\* GetTools and CallTool are called by several tasks at once.

Ops == {"GetTools", "CallTool"}

clientRest == <<orchVars, taskVars, agentVars, reconnectVars, streamVars,
                cancelled, writer, extraVars>>

\* A task calls GetTools or CallTool: the method is entered and reaches
\* c.mu.Lock().
Call(c, op) ==
    /\ callPc[c] = "idle"
    /\ callPc' = [callPc EXCEPT ![c] = "locking"]
    /\ callOp' = [callOp EXCEPT ![c] = op]
    /\ UNCHANGED <<mu, inFlight, clientRest>>

\* sync.Mutex: Lock returns only while no caller holds the mutex.
CanLockAlways(c) == TRUE
CanLock(c) == mu = 0

\* c.mu.Lock() returns; defer c.mu.Unlock().
Lock(c) ==
    /\ callPc[c] = "locking"
    /\ CanLock(c)
    /\ mu' = c
    /\ callPc' = [callPc EXCEPT ![c] = "locked"]
    /\ UNCHANGED <<callOp, inFlight, clientRest>>

\* Holding the mutex: CallTool marshals its arguments and returns an error,
\* unlocking, when json.Marshal fails; otherwise, and in GetTools, the request
\* is put on c.client.
Send(c, marshalled) ==
    /\ callPc[c] = "locked"
    /\ IF callOp[c] = "CallTool" /\ ~marshalled
       THEN /\ callPc' = [callPc EXCEPT ![c] = "returned"]
            /\ mu' = 0
            /\ UNCHANGED inFlight
       ELSE /\ callPc' = [callPc EXCEPT ![c] = "transport"]
            /\ inFlight' = inFlight \cup {c}
            /\ UNCHANGED mu
    /\ UNCHANGED <<callOp, clientRest>>

\* c.client.CallTool or c.client.ListTools returns, with a result or with an
\* error (the provider's, or that of a context that is done): the method
\* returns and the deferred Unlock runs.
Respond(c) ==
    /\ callPc[c] = "transport"
    /\ callPc' = [callPc EXCEPT ![c] = "returned"]
    /\ inFlight' = inFlight \ {c}
    /\ mu' = 0
    /\ UNCHANGED <<callOp, clientRest>>

\* The task goes on and may call the client again.
Again(c) ==
    /\ callPc[c] = "returned"
    /\ callPc' = [callPc EXCEPT ![c] = "idle"]
    /\ callOp' = [callOp EXCEPT ![c] = "none"]
    /\ UNCHANGED <<mu, inFlight, clientRest>>

NextClient ==
    \/ \E c \in Callers, op \in Ops : Call(c, op)
    \/ \E c \in Callers : Lock(c)
    \/ \E c \in Callers, marshalled \in BOOLEAN : Send(c, marshalled)
    \/ \E c \in Callers : Respond(c)
    \/ \E c \in Callers : Again(c)

\* What a caller inside a method does next without waiting for another caller.
Holding(c) == (\E marshalled \in BOOLEAN : Send(c, marshalled)) \/ Respond(c)

\* A goroutine inside a method runs on; the call on c.client returns, with
\* the provider's answer or when its context is done; and sync.Mutex hands
\* the mutex to a waiter that has waited long (starvation mode), so a caller
\* that finds the mutex free again and again gets it.  Tasks are not obliged
\* to call.
SpecClient ==
    /\ Init
    /\ [][NextClient]_vars
    /\ \A c \in Callers : SF_vars(Lock(c)) /\ WF_vars(Holding(c))

\* ------------------------------------------------- synthesizer on its own

\* Content blocks of a CallToolResult.
MaxBlocks == 3

\* mcpcore.ImageContent, a content block that is not TextContent, with the
\* text json.Marshal makes of it.
ImageContent(data, mimeType) ==
    [kind |-> "image", marshals |-> TRUE,
     json |-> "{\"type\":\"image\",\"data\":\"" \o data \o "\",\"mimeType\":\""
                  \o mimeType \o "\"}"]

ContentBlocks ==
    {TextContent("boom"), TextContent("file1.txt"), TextContent(""),
     ImageContent("QUJD", "image/png")}

\* The results Synthesize is called with.
SynthResults ==
    {[isError |-> e, content |-> c] :
        e \in BOOLEAN, c \in SeqsUpTo(ContentBlocks, MaxBlocks)}

\* Synthesize is called with the result and returns.
SynthesizeCall ==
    /\ synthesized = <<>>
    /\ synthesized' = <<Synthesize(result)>>
    /\ UNCHANGED <<result, orchVars, taskVars, agentVars, reconnectVars,
                   streamVars, cancelled, concVars, manageRet, serveVars>>

InitSynth ==
    /\ NewOrchestrator
    /\ ReconnectAtRest
    /\ StreamAtRest
    /\ cancelled = FALSE
    /\ ConcAtRest
    /\ result \in SynthResults
    /\ synthesized = <<>>
    /\ RegisterAtRest
    /\ ServeAtRest

NextSynth == SynthesizeCall

SpecSynth == InitSynth /\ [][NextSynth]_vars

\* The client of /orchestrate goes away: the context of its request is
\* cancelled while the task runs.  ExecuteTask is not given that context: its
\* calls run under context.Background().
CancelTask ==
    /\ pc \in {"discovering", "agent"}
    /\ ~cancelled
    /\ cancelled' = TRUE
    /\ UNCHANGED <<orchVars, taskVars, agentVars, reconnectVars, streamVars,
                   concVars, extraVars>>

NextCancel ==
    \/ \E alias \in Aliases, command \in Commands, started \in BOOLEAN :
           ManageMCP(alias, command, started)
    \/ Begin
    \/ \E alias \in Aliases, out \in GetToolsOutcomes : Discover(alias, out)
    \/ NoTools
    \/ StartAgent
    \/ \E resp \in TaskResponses : Plan(resp)
    \/ Executing
    \/ DispatchUnknown
    \/ \E out \in CallToolOutcomes : DispatchCall(out)
    \/ \E resp \in TaskResponses : NextTurn(resp)
    \/ \E resp \in TaskResponses : Finalize(resp)
    \/ Finish
    \/ Return
    \/ CancelTask

\* One task whose request may be cancelled while it runs.
SpecCancel == Init /\ [][NextCancel]_vars /\ WF_vars(TaskStep)

\* Registration tables an agent is built with: providers "a" and "b", either
\* or both.
AgentTables ==
    {[a \in S |-> NewMCPClient(a, "filesys_mcp_exec")] :
        S \in (SUBSET {AliasA, AliasB}) \ {{}}}

\* ExecuteTask at NewAgent: discovery is over, every registered provider gave
\* its tool "c", and agent.Execute is entered.
InitAgent ==
    /\ mcpClients \in AgentTables
    /\ pc = "agent"
    /\ toVisit = {}
    /\ fetched = [a \in DOMAIN mcpClients |-> [err |-> FALSE, tools |-> <<RawC>>]]
    /\ availableTools \in {t \in SeqsUpTo({Qualify(a, RawC) : a \in DOMAIN mcpClients}, 2) :
                              /\ Len(t) = Cardinality(DOMAIN mcpClients)
                              /\ Cardinality(Range(t)) = Len(t)}
    /\ updates = <<>>
    /\ closed = 0
    /\ phase = "Planning"
    /\ history = <<>>
    /\ turn = 0
    /\ idx = 0
    /\ invoked = <<>>
    /\ llmCalls = 0
    /\ lastOut = [err |-> "", result |-> NoResult]
    /\ lastReply = ""
    /\ execResult = NoExecResult
    /\ OthersAtRest

\* The agent loop of one task against every answer of the endpoint and every
\* outcome of a provider call, up to ExecuteTask's return.
NextAgent ==
    \/ \E resp \in EndpointResponses : Plan(resp)
    \/ Executing
    \/ DispatchUnknown
    \/ \E out \in CallToolOutcomes : DispatchCall(out)
    \/ \E resp \in EndpointResponses : NextTurn(resp)
    \/ \E resp \in EndpointResponses : Finalize(resp)
    \/ Finish
    \/ Return

SpecAgent == InitAgent /\ [][NextAgent]_vars

\* ------------------------------------------------------------------ claims

Terminal(u) == u.Type \in {"result", "error"}
TerminalCount == Cardinality({i \in 1..Len(updates) : Terminal(updates[i])})
TypesSent == {updates[i].Type : i \in 1..Len(updates)}

\* C1: every execution of ExecuteTask sends exactly one terminal update
\* ("result" or "error") on the update channel: never more than one at any
\* time, exactly one once it has sent and is returning, and never both a
\* result and an error.
C1_ExactlyOneTerminalUpdate ==
    /\ TerminalCount <= 1
    /\ pc \in {"returning", "returned"} => TerminalCount = 1
    /\ pc \in {"idle", "discovering", "agent"} => TerminalCount = 0
    /\ ~({"result", "error"} \subseteq TypesSent)

\* An execution whose agent failed has returned with its single error update.
C1_Witness ==
    /\ pc = "returned"
    /\ phase = "Failed"
    /\ Len(updates) = 1
    /\ updates[1].Type = "error"

\* Providers whose GetTools gave at least one tool in this task.
Productive == {a \in DOMAIN fetched : ~fetched[a].err /\ Len(fetched[a].tools) > 0}
DiscoveryOver == pc # "idle" /\ toVisit = {}

\* C2: if discovery gives no tool at all (every registered provider fails
\* GetTools or returns nothing, or no provider is registered), ExecuteTask
\* sends exactly one update, of type "error", and makes no model call: the
\* agent is never started.
C2_EmptyCatalogFailsWithoutModelCall ==
    (DiscoveryOver /\ Productive = {}) =>
        /\ llmCalls = 0
        /\ phase = "None"
        /\ pc \in {"discovering", "returning", "returned"}
        /\ pc \in {"returning", "returned"} =>
               /\ Len(updates) = 1
               /\ updates[1].Type = "error"

\* Two providers are registered, both fail discovery, and the task has
\* returned after its error update.
C2_Witness ==
    /\ pc = "returned"
    /\ Cardinality(DOMAIN mcpClients) = 2
    /\ \A a \in DOMAIN mcpClients : fetched[a].err
    /\ TypesSent = {"error"}

\* C3: the update channel is closed exactly once, only by the returning
\* ExecuteTask and only after its terminal update was sent; an execution
\* that has stopped has closed it; nothing is sent after the close.
C3_ClosedOnceAfterTerminal ==
    /\ [](/\ closed <= 1
          /\ closed = 1 <=> pc = "returned"
          /\ closed = 1 => TerminalCount = 1
          /\ ~(ENABLED Next) => closed = 1)
    /\ [][closed >= 1 => updates' = updates]_vars

\* The channel of a task that ended with a result is closed.
C3_Witness ==
    /\ closed = 1
    /\ TypesSent = {"result"}

RECURSIVE ToolCount(_)
\* Number of tools the providers of set S returned in this task.
ToolCount(S) ==
    IF S = {} THEN 0
    ELSE LET a == CHOOSE x \in S : TRUE
         IN (IF fetched[a].err THEN 0 ELSE Len(fetched[a].tools)) + ToolCount(S \ {a})

\* C4: the catalog holds every tool of every provider whose discovery
\* succeeded, under its qualified name, and nothing else (so no tool of a
\* provider whose discovery failed); and when some provider gave a tool, the
\* task is not failed for lack of tools, whatever the other providers did.
C4_PartialDiscoveryFailure ==
    /\ Range(availableTools) =
           UNION {{Qualify(a, fetched[a].tools[i]) : i \in 1..Len(fetched[a].tools)} :
                      a \in {x \in DOMAIN fetched : ~fetched[x].err}}
    /\ Len(availableTools) = ToolCount(DOMAIN fetched)
    /\ (DiscoveryOver /\ Productive # {}) =>
           /\ pc # "discovering" => phase # "None"
           /\ \A i \in 1..Len(updates) : updates[i].Error # "no tools available"

\* One provider failed discovery, another gave a tool, and the agent runs
\* with that tool in its catalog.
C4_Witness ==
    /\ pc = "agent"
    /\ \E a \in DOMAIN fetched : fetched[a].err
    /\ Productive # {}
    /\ Len(availableTools) = 1

\* C5: no two entries of the merged catalog share a qualified name, for every
\* set of registered aliases and every list of raw names the providers
\* return.
C5_NoTwoEntriesShareAName ==
    \A i \in 1..Len(availableTools) : \A j \in 1..Len(availableTools) :
        availableTools[i] = availableTools[j] => i = j

\* The raw names a provider's successful discovery returned in this task.
RawNamesOf(a) == {fetched[a].tools[i] : i \in 1..Len(fetched[a].tools)}

\* C6: for every registered alias and every raw name its discovery returned,
\* resolving the qualified name the catalog holds for it gives back exactly
\* that alias and that raw name.
C6_ResolveInvertsQualify ==
    \A a \in DOMAIN fetched :
        ~fetched[a].err =>
            \A r \in RawNamesOf(a) :
                /\ Qualify(a, r) \in Range(availableTools)
                /\ Resolve(Qualify(a, r)) = <<a, r>>

\* A dispatch step: the agent is at request idx of the batch.
Dispatching == pc = "agent" /\ phase = "ToolDispatch" /\ idx <= Len(Batch)

\* The name is alias, ".", and something after it.
HasAliasPrefix(name, alias) ==
    /\ Len(name) > Len(alias) + 1
    /\ SubSeq(name, 1, Len(alias) + 1) = alias \o <<".">>

RawAfter(name, alias) == SubSeq(name, Len(alias) + 2, Len(name))

DotFree(alias) == \A i \in 1..Len(alias) : alias[i] # "."

\* The registered aliases a requested name is addressed to.
Addressed(name) ==
    {a \in DOMAIN mcpClients : DotFree(a) /\ HasAliasPrefix(name, a)}

\* The argument object a request's argument JSON stands for.
ArgsOf(call) == IF call.arguments = ArgPathDot THEN {<<"path", ".">>} ELSE {}

HasAssistant(h) == \E i \in 1..Len(h) : h[i].role = "assistant"

\* The latest assistant message asks for no tool.
NoToolCallsLeft == pc \in {"agent", "returning", "returned"}
                   /\ HasAssistant(history) /\ Batch = <<>>

FinalizerErrors ==
    {"Agent execution failed: failed to get final response from LLM: " \o e :
         e \in {"error sending request", "no choices in LLM response"}}

FailureText(out) ==
    IF out.err # "" THEN "Error: failed to call tool: " \o out.err
    ELSE IF Len(out.result.content) > 0 /\ out.result.content[1].kind = "text"
         THEN "Tool returned an error: " \o out.result.content[1].text
         ELSE "Tool returned an unspecified error."

\* C9: a failed tool invocation (the provider call errs, or the result has
\* isError set) never ends the loop: the failure is appended as an
\* error-text tool-result message tagged with the request's id, the loop
\* stays in dispatch for the rest of the batch, and once the batch is
\* through the model is called again.
C9_FailedCallIsFedBack ==
    /\ [][(Dispatching /\ invoked' # invoked
               /\ (lastOut'.err # "" \/ lastOut'.result.isError)) =>
              /\ history' = Append(history,
                                   [role |-> "tool",
                                    content |-> FailureText(lastOut'),
                                    toolCalls |-> <<>>,
                                    toolCallId |-> Batch[idx].id])
              /\ phase' = "ToolDispatch"
              /\ pc' = "agent"
              /\ idx' = idx + 1
              /\ execResult' = execResult
              /\ updates' = updates]_vars
    /\ [][(pc = "agent" /\ phase = "ToolDispatch" /\ ~Dispatching) =>
              llmCalls' = llmCalls + 1]_vars

\* The first request of a batch of two failed, the second was dispatched
\* all the same, and the model answered the next call.
C9_Witness ==
    \E i \in 1..Len(history) :
        /\ i + 2 <= Len(history)
        /\ history[i].role = "tool"
        /\ history[i].toolCallId = 1
        /\ history[i].content \in {"Tool returned an error: boom",
                                   "Error: failed to call tool: transport closed"}
        /\ history[i + 1].role = "tool"
        /\ history[i + 1].toolCallId = 2
        /\ history[i + 2].role = "assistant"
        /\ Len(invoked) = 2

\* C10: a requested tool call whose alias prefix is not in the registration
\* table invokes no provider, is not skipped (an error tool-result message
\* tagged with its id is appended for the model), and does not end the task:
\* the loop stays in dispatch and the model is called once the batch is
\* through.
C10_UnknownAliasIsFedBack ==
    /\ [][(Dispatching /\ Addressed(Batch[idx].name) = {}) =>
              /\ invoked' = invoked
              /\ history' = Append(history,
                                   [role |-> "tool",
                                    content |-> "Error: unknown provider alias",
                                    toolCalls |-> <<>>,
                                    toolCallId |-> Batch[idx].id])
              /\ phase' = "ToolDispatch"
              /\ pc' = "agent"
              /\ idx' = idx + 1
              /\ execResult' = execResult
              /\ updates' = updates]_vars
    /\ [](pc = "agent" /\ phase = "ToolDispatch" /\ ~Dispatching =>
              ENABLED (llmCalls' = llmCalls + 1 /\ NextAgent))

\* Only provider a is registered, a request for "b.c" got the resolution
\* error, no provider was invoked, and the model answered the next call.
C10_Witness ==
    /\ DOMAIN mcpClients = {AliasA}
    /\ invoked = <<>>
    /\ \E i \in 1..Len(history) :
           /\ i < Len(history)
           /\ history[i].role = "tool"
           /\ history[i].content = "Error: unknown provider alias"
           /\ history[Len(history)].role = "assistant"

\* C11: the agent loop terminates whatever the model answers: the turn
\* counter never exceeds the maximum, a request for tools at the maximum
\* turn ends the loop in Failed with the turn-limit error, and the task
\* always comes to its terminal update and returns.
C11_TurnLimitTerminates ==
    /\ [](turn <= MaxTurns)
    /\ [][(pc = "agent" /\ phase = "Executing" /\ turn >= MaxTurns
               /\ Batch # <<>>) =>
              /\ phase' = "Failed"
              /\ execResult' = [text |-> "", err |-> TurnLimitError]
              /\ invoked' = invoked]_vars
    /\ <>(pc = "returned" /\ TerminalCount = 1)

\* The model asked for tools on every turn, and the task returned the
\* turn-limit error.
C11_Witness ==
    /\ pc = "returned"
    /\ turn = MaxTurns
    /\ \A i \in 1..Len(history) :
           history[i].role = "assistant" => history[i].toolCalls # <<>>
    /\ updates = <<[Type |-> "error",
                    Content |-> "Agent execution failed: " \o TurnLimitError,
                    Error |-> TurnLimitError]>>

\* The history holds an assistant message with text.
HasAssistantText(h) ==
    \E i \in 1..Len(h) : h[i].role = "assistant" /\ h[i].content # ""

\* C12: Reconnect never returns the empty string as a successful answer: a
\* history with an assistant message that has text gives a non-empty answer,
\* and a history with none fails with NoFinalAnswerError.
C12_NeverAnEmptyAnswer ==
    Reconnected =>
        /\ answer.err = "" => answer.text # ""
        /\ HasAssistantText(transcript) => (answer.err = "" /\ answer.text # "")
        /\ ~HasAssistantText(transcript) => answer.err = "NoFinalAnswerError"

\* C13: for a history of a user message followed by one assistant message
\* with non-empty text X, Reconnect returns exactly X.
C13_ReturnsTheAssistantText ==
    (/\ Reconnected
     /\ Len(transcript) = 2
     /\ transcript[1].role = "user"
     /\ transcript[2].role = "assistant"
     /\ transcript[2].content # "") =>
        answer = [text |-> transcript[2].content, err |-> ""]

IsPrefix(p, q) == Len(p) <= Len(q) /\ SubSeq(q, 1, Len(p)) = p

\* C14: however the body is cut into reads, StreamChatCompletion hands over
\* the same contents in the same order, and returns the same outcome, as
\* when the whole body arrives in one read; and between two reads it has
\* handed over what one read of the bytes read so far hands over.
C14_FragmentationIndependence ==
    /\ IsPrefix(delivered, OneRead(stream, ending).delivered)
    /\ streamPc \in {"top", "read"} =>
           delivered = OneRead(SubSeq(stream, 1, pos), "EOF").delivered
    /\ streamPc = "returned" =>
           /\ delivered = OneRead(stream, ending).delivered
           /\ streamRet = OneRead(stream, ending).ret

\* A read ended inside the second event, after the content of the first was
\* handed over.
C14_Witness ==
    /\ streamPc = "read"
    /\ delivered = <<"a">>
    /\ buffer # <<>>
    /\ ~HasLine(buffer)
    /\ OneRead(stream, ending).delivered = <<"a", "b">>

\* The complete lines of a body, each with its line end.
LineEnds(b) == {i \in 1..Len(b) : b[i] = "\n"}
LineEnd(b, k) ==
    IF k = 0 THEN 0
    ELSE CHOOSE i \in LineEnds(b) : Cardinality({j \in LineEnds(b) : j <= i}) = k
LinesOf(b) ==
    [k \in 1..Cardinality(LineEnds(b)) |->
        SubSeq(b, LineEnd(b, k - 1) + 1, LineEnd(b, k))]

\* Index of the first sentinel line, 0 when there is none.
FirstDone(ls) ==
    IF \E i \in 1..Len(ls) : ls[i] = LineDone
    THEN CHOOSE i \in 1..Len(ls) :
             ls[i] = LineDone /\ \A j \in 1..(i - 1) : ls[j] # LineDone
    ELSE 0

\* The content an event line carries.
ContentOf(l) ==
    IF l = LineA THEN <<"a">> ELSE IF l = LineB THEN <<"b">> ELSE <<>>

RECURSIVE ContentsOf(_)
ContentsOf(ls) == IF ls = <<>> THEN <<>> ELSE ContentOf(Head(ls)) \o ContentsOf(Tail(ls))

\* The contents of the events before the first sentinel line.
BeforeDone(b) == ContentsOf(SubSeq(LinesOf(b), 1, FirstDone(LinesOf(b)) - 1))

\* C15: when the body holds a complete "data: [DONE]" line,
\* StreamChatCompletion returns nil at that line: the contents of the events
\* before it have been handed over in order, and no content of an event
\* after it is ever handed over.
C15_ReturnsAtDone ==
    FirstDone(LinesOf(stream)) > 0 =>
        /\ IsPrefix(delivered, BeforeDone(stream))
        /\ streamPc = "returned" =>
               /\ streamRet = ""
               /\ delivered = BeforeDone(stream)

\* The body is event a, the sentinel, event b, and ends in a reset: the call
\* returned nil with a handed over and b not.
C15_Witness ==
    /\ stream = LineA \o LineDone \o LineB
    /\ ending = "reset"
    /\ streamPc = "returned"
    /\ streamRet = ""
    /\ delivered = <<"a">>

\* C16: once the caller's context is cancelled or past its deadline,
\* StreamChatCompletion returns, whatever the peer and the consumer of the
\* content channel do.
C16_ReturnsOnceContextDone == ctxDone ~> streamPc = "returned"

\* C17: once the parent task is cancelled, the agent loop ends in Failed,
\* the task's terminal update is an error, and the update channel is closed.
C17_CancellationEndsInError ==
    /\ [](cancelled /\ pc = "returned" =>
              /\ TypesSent = {"error"}
              /\ phase \in {"None", "Failed"})
    /\ cancelled ~> closed = 1

\* C18: registering a provider under an alias that is already in the table
\* fails with DuplicateAliasError and leaves the entry stored under that
\* alias as it was.
C18_DuplicateAliasRejected ==
    [][\A alias \in DOMAIN mcpClients, command \in RegCommands, started \in BOOLEAN :
           ManageMCP(alias, command, started) =>
               /\ ManageMCPReturn(alias, command, started) = "DuplicateAliasError"
               /\ alias \in DOMAIN mcpClients'
               /\ mcpClients'[alias] = mcpClients[alias]]_vars

\* C19: in every interleaving of ManageMCP with a running ExecuteTask no
\* access to the registration table overlaps a write to it: no store into the
\* table is under way while the discovery loop iterates over it, and no
\* dispatch looks a provider up while a store is under way.
C19_NoAccessOverlapsAWrite ==
    /\ [](Iterating => writer = <<>>)
    /\ [][(DispatchUnknown \/ \E out \in CallToolOutcomes : DispatchCall(out)) =>
              writer = <<>>]_vars

\* C20: for any number of tasks calling GetTools and CallTool concurrently on
\* one MCPClient, at most one request is in flight on the underlying client
\* at any time (and it is that of the caller holding the mutex), and every
\* call eventually gets the lock and returns.
C20_TransportSerialized ==
    /\ [](Cardinality(inFlight) <= 1 /\ \A c \in inFlight : mu = c)
    /\ \A c \in Callers : callPc[c] = "locking" ~> mu = c
    /\ \A c \in Callers : callPc[c] = "locking" ~> callPc[c] = "returned"
C20_Witness ==
    \E c, d, e \in Callers :
        /\ inFlight = {c}
        /\ callPc[d] = "locking"
        /\ callPc[e] = "returned"
        /\ {callOp[c], callOp[d], callOp[e]} = Ops

\* Claim side: a block is plain text; the text a block stands for in an
\* answer; the blocks of a content joined from the left.
IsText(c) == c.kind = "text"
BlockText(c) == IF IsText(c) THEN c.text ELSE c.json
RECURSIVE JoinedUpTo(_, _)
JoinedUpTo(content, n) ==
    IF n = 0 THEN "" ELSE JoinedUpTo(content, n - 1) \o BlockText(content[n])
Joined(content) == JoinedUpTo(content, Len(content))
Synthesized == synthesized # <<>>

\* C21 as stated: on an error result whose content is plain text (every
\* block is text) Synthesize returns "Tool returned an error: " followed by
\* that text; on an error result whose content is empty or not plain text it
\* returns the generic sentence; it never fails on an error result.
C21_ErrorResultSentence ==
    (Synthesized /\ result.isError) =>
        /\ synthesized[1].err = ""
        /\ IF result.content # <<>> /\ \A i \in 1..Len(result.content) :
                                            IsText(result.content[i])
           THEN synthesized[1].text =
                    "Tool returned an error: " \o Joined(result.content)
           ELSE synthesized[1].text = "Tool returned an unspecified error."

\* What Synthesize does on an error result: only the first content block
\* counts.  When it is plain text the answer is "Tool returned an error: "
\* followed by the text of that block alone; when the content is empty or
\* begins with a block that is not text the answer is the generic sentence.
ErrorResultFirstBlock ==
    (Synthesized /\ result.isError) =>
        /\ synthesized[1].err = ""
        /\ IF result.content # <<>> /\ IsText(result.content[1])
           THEN synthesized[1].text =
                    "Tool returned an error: " \o result.content[1].text
           ELSE synthesized[1].text = "Tool returned an unspecified error."
ErrorResultBoom ==
    /\ result = [isError |-> TRUE, content |-> <<TextContent("boom")>>]
    /\ synthesized = <<[text |-> "Tool returned an error: boom", err |-> ""]>>

\* C22: on a non-error result Synthesize returns the concatenation, in block
\* order, of every content block, text blocks verbatim and structured blocks
\* in their serialized form, with no block dropped, truncated or reordered.
C22_ConcatenatesEveryBlock ==
    (Synthesized /\ ~result.isError) =>
        synthesized[1] = [text |-> Joined(result.content), err |-> ""]
C22_Witness ==
    /\ result = [isError |-> FALSE,
                 content |-> <<TextContent("file1.txt"),
                               ImageContent("QUJD", "image/png"),
                               TextContent("boom")>>]
    /\ synthesized =
           <<[text |-> "file1.txt{\"type\":\"image\",\"data\":\"QUJD\",\"mimeType\":\"image/png\"}boom",
              err |-> ""]>>

\* C23: a synchronous model call never succeeds with zero choices:
\* CallChatCompletionWithToolChoice returns an error whenever the endpoint's
\* response has an empty choices list, so the finalizer, which reads
\* Choices[0] of a successful response, reads an existing element: on an
\* empty list Reconnect returns the error of the call, and otherwise the
\* text of the first choice.
C23_NoSuccessWithZeroChoices ==
    [][\A resp \in EndpointResponses :
           ReconnectCall(resp) =>
               /\ CallChatCompletionWithToolChoice(resp).err = "" =>
                      /\ Len(CallChatCompletionWithToolChoice(resp).choices) > 0
                      /\ answer' = [text |-> resp.choices[1].content, err |-> ""]
               /\ (resp.ok /\ Len(resp.choices) = 0) =>
                      /\ CallChatCompletionWithToolChoice(resp).err # ""
                      /\ answer' =
                             [text |-> "",
                              err |-> "failed to get final response from LLM: no choices in LLM response"]]_vars
C23_Witness ==
    /\ Reconnected
    /\ answer = [text |-> "",
                 err |-> "failed to get final response from LLM: no choices in LLM response"]

\* The edges of the agent loop.
LoopEdges ==
    {<<"Planning", "Executing">>, <<"Executing", "ToolDispatch">>,
     <<"ToolDispatch", "Executing">>, <<"Executing", "Finalizing">>,
     <<"Finalizing", "Done">>}
        \cup {<<p, "Failed">> :
                 p \in {"Planning", "Executing", "ToolDispatch", "Finalizing"}}
LoopRunning == pc = "agent" /\ phase # "None"

\* C25: the agent loop only moves along the edges Planning -> Executing,
\* Executing -> ToolDispatch, ToolDispatch -> Executing (turn counter
\* incremented by one), Executing -> Finalizing, Finalizing -> Done and any
\* state -> Failed; Done and Failed are absorbing; and a terminal update is
\* emitted only for a loop that went Finalizing -> Done (one result update)
\* or into Failed (one error update).
C25_LoopEdges ==
    /\ [][(phase # "None" /\ phase' # phase) => <<phase, phase'>> \in LoopEdges]_vars
    /\ [][(phase = "ToolDispatch" /\ phase' = "Executing") => turn' = turn + 1]_vars
    /\ [][(phase # "None" /\ turn' # turn) =>
              (phase = "ToolDispatch" /\ phase' = "Executing")]_vars
    /\ [][(phase \in {"Done", "Failed"}) => (phase' = phase)]_vars
    /\ [][(LoopRunning /\ updates' # updates) =>
              /\ phase \in {"Done", "Failed"}
              /\ Len(updates') = Len(updates) + 1
              /\ SubSeq(updates', 1, Len(updates)) = updates
              /\ updates'[Len(updates')].Type =
                     IF phase = "Done" THEN "result" ELSE "error"
              /\ pc' # "agent"]_vars
C25_Witness ==
    /\ pc = "returned"
    /\ phase = "Done"
    /\ turn = 1
    /\ Len(invoked) = 1
    /\ updates # <<>>
    /\ updates[Len(updates)].Type = "result"

\* Where the latest assistant message of the conversation is.
AssistantPos ==
    CHOOSE i \in 1..Len(history) :
        history[i].role = "assistant"
            /\ \A j \in (i + 1)..Len(history) : history[j].role # "assistant"
InDispatch == pc = "agent" /\ phase = "ToolDispatch"

\* C26: within one ToolDispatch batch the requests are invoked one at a
\* time in the order the model emitted them (a request is invoked only after
\* the result message of the previous one has been appended), and the batch
\* appends exactly one tool-result message per request, in request order,
\* each tagged with the id of its request.
C26_BatchInOrder ==
    /\ [](InDispatch =>
              /\ idx \in 1..(Len(Batch) + 1)
              /\ Len(history) = AssistantPos + idx - 1
              /\ \A k \in 1..(idx - 1) :
                     /\ history[AssistantPos + k].role = "tool"
                     /\ history[AssistantPos + k].toolCallId = Batch[k].id)
    /\ [][(invoked' # invoked) =>
              /\ Dispatching
              /\ Len(history) = AssistantPos + idx - 1
              /\ Len(invoked') = Len(invoked) + 1
              /\ SubSeq(invoked', 1, Len(invoked)) = invoked
              /\ invoked'[Len(invoked')].name = RawAfter(Batch[idx].name,
                                                        invoked'[Len(invoked')].client.alias)
              /\ Len(history') = Len(history) + 1
              /\ history'[Len(history')].toolCallId = Batch[idx].id
              /\ idx' = idx + 1]_vars
    /\ [][(InDispatch /\ phase' # "ToolDispatch") => idx = Len(Batch) + 1]_vars
C26_Witness ==
    /\ InDispatch
    /\ Len(Batch) = 2
    /\ idx = 3
    /\ Len(invoked) = 2
    /\ invoked[1].client.alias = AliasB
    /\ invoked[2].client.alias = AliasA
    /\ history[Len(history) - 1].toolCallId = 1
    /\ history[Len(history)].toolCallId = 2

\* The complete lines of a body that the parser gets to: those before the
\* first sentinel line, or all of them when there is none.
LinesReached(b) ==
    IF FirstDone(LinesOf(b)) > 0
    THEN SubSeq(LinesOf(b), 1, FirstDone(LinesOf(b)) - 1)
    ELSE LinesOf(b)
HasMalformedEvent(b) == \E k \in 1..Len(LinesReached(b)) : LinesReached(b)[k] = LineBad

\* C27: a streamed data event whose payload is not valid JSON is skipped
\* without ending the stream: StreamChatCompletion returns no error for it
\* (an error is returned only for a read that failed), and the contents of
\* every well-formed event before and after it are handed over in order.
C27_MalformedEventSkipped ==
    HasMalformedEvent(stream) =>
        /\ IsPrefix(delivered, ContentsOf(LinesReached(stream)))
        /\ streamPc = "returned" =>
               /\ delivered = ContentsOf(LinesReached(stream))
               /\ streamRet # "" =>
                      /\ ending = "reset"
                      /\ FirstDone(LinesOf(stream)) = 0
                      /\ streamRet = "error reading stream: connection reset"
C27_Witness ==
    /\ stream = LineA \o LineBad \o LineB
    /\ ending = "EOF"
    /\ streamPc = "returned"
    /\ streamRet = ""
    /\ delivered = <<"a", "b">>

\* The errors of a model call that failed, as the call returns them, and as
\* agent.Execute returns them (the finalizer wraps the call's error).
CallErrors == {"error sending request", "no choices in LLM response"}
ModelFailures ==
    CallErrors \cup {"failed to get final response from LLM: " \o e : e \in CallErrors}
ModelCall(resp) == Plan(resp) \/ NextTurn(resp) \/ Finalize(resp)
FailingResponses == {r \in EndpointResponses : ~r.ok \/ Len(r.choices) = 0}

\* C28: any failure of the model endpoint during planning, execution or
\* finalization (the request or the status fails, the body does not decode,
\* the choices are empty) terminates the task: the loop fails with the
\* cause, and ExecuteTask sends one terminal "error" update carrying it and
\* never a "result" update.
C28_ModelFailureEndsInError ==
    /\ [][\A resp \in FailingResponses :
              ModelCall(resp) =>
                  /\ phase' = "Failed"
                  /\ execResult'.text = ""
                  /\ execResult'.err \in
                         {CallChatCompletionWithToolChoice(resp).err,
                          "failed to get final response from LLM: "
                              \o CallChatCompletionWithToolChoice(resp).err}
                  /\ execResult'.err \in ModelFailures]_vars
    /\ [](execResult.err \in ModelFailures =>
              /\ phase = "Failed"
              /\ pc = "agent" => updates = <<>>
              /\ pc \in {"returning", "returned"} =>
                     updates = << Update("error",
                                         "Agent execution failed: " \o execResult.err,
                                         execResult.err) >>)
C28_Witness ==
    /\ pc = "returned"
    /\ llmCalls = 3
    /\ execResult.err = "failed to get final response from LLM: no choices in LLM response"
    /\ updates = << Update("error",
                           "Agent execution failed: " \o execResult.err,
                           execResult.err) >>

\* C29: a registration that fails (empty command, provider process not
\* started or not initialized) returns an error and leaves the registration
\* table unchanged: no entry is added under the alias and no existing entry
\* is modified.
C29_FailedRegistrationLeavesTable ==
    [][\A alias \in Aliases, command \in RegCommands, started \in BOOLEAN :
           (ManageMCPCall(alias, command, started) /\ (command = "" \/ ~started)) =>
               /\ manageRet'[1].err # ""
               /\ DOMAIN mcpClients' = DOMAIN mcpClients
               /\ \A a \in DOMAIN mcpClients : mcpClients'[a] = mcpClients[a]]_vars
C29_Witness ==
    /\ manageRet =
           <<[alias |-> AliasA,
              err |-> "failed to create MCP client: command cannot be empty for MCP client"]>>
    /\ DOMAIN mcpClients = {AliasB}

\* C30: the handler and the ExecuteTask goroutine it spawns communicate over
\* the unbuffered update channel without deadlock or leak: the handler
\* writes exactly one response, the terminal update; ExecuteTask sends
\* nothing once the handler has returned, so it is never left blocked in a
\* send; and it always runs to its close of the channel.
C30_HandlerAndTaskFinish ==
    /\ [](Len(written) <= 1)
    /\ [](handlerPc = "returned" =>
              /\ SendTaken
              /\ Len(written) = 1
              /\ written[1] = updates[Len(updates)]
              /\ written[1].Type \in {"result", "error"})
    /\ [][(handlerPc = "returned") => (updates' = updates)]_vars
    /\ [](closed <= 1)
    /\ <>(handlerPc = "returned" /\ pc = "returned" /\ closed = 1)
C30_Witness ==
    /\ handlerPc = "returned"
    /\ pc = "returned"
    /\ closed = 1
    /\ phase = "Done"
    /\ written = << Update("result", "Final answer", "") >>

====
